---- MODULE Spec2Model ----
(***************************************************************************)
(* DaapClient.js: the DAAP chunk decoder (DaapPacket), the HTTP executor   *)
(* (DaapHttpClient), the three request handlers, the LoginListener and the *)
(* DaapClient facade.                                                      *)
(*                                                                         *)
(* JavaScript strings are sequences of UTF-16 code units (0..65535).       *)
(* The texts of the request URIs, which the code only concatenates, are    *)
(* strings.                                                                *)
(* JavaScript numbers are kept exact; the one 32-bit operation of the      *)
(* code, "<<", keeps its signed 32-bit result.                             *)
(*                                                                         *)
(* Three specifications:                                                   *)
(*   PacketSpec  new DaapPacket(chunk, start) on bounded buffers           *)
(*   DecoderSpec the methods of a DaapPacket decoded from an encoded chunk *)
(*   Spec        a DaapClient, its callers and the transport (XHR)         *)
(***************************************************************************)
EXTENDS Integers, Sequences, FiniteSets, TLC

VARIABLES
    \* ---- PacketSpec: one construction of a DaapPacket
    chunk,            \* the string handed to the constructor
    start,            \* the offset handed to the constructor
    packet,           \* NotConstructed, EndOfPacketException or the DaapPacket
    \* ---- DecoderSpec: method calls on a decoded DaapPacket
    tree,             \* the chunk that was encoded into the buffer (None: any bytes)
    answer,           \* the last method call and what it returned
    \* ---- Spec: the DaapClient closure and the transport
    port,             \* the port given to new DaapClient(ip, port) (Undefined: omitted)
    sid,              \* var sid  (None = null)
    rid,              \* var rid  (None = null)
    encodedPassword,  \* DaapHttpClient's encodedPassword (None = null)
    xhrs,             \* the XMLHttpRequests sent and not yet answered
    \* ---- Spec: what the callers and the transport have seen (history)
    calls,            \* per API call (its id is its index): what became of it
    handshakes,       \* the <<mlid, musr>> the server gave to one login() call
    last              \* the last step: the call or response, and what it did

vars == <<chunk, start, packet, tree, answer, port, sid, rid, encodedPassword, xhrs, calls, handshakes, last>>

packetVars == <<chunk, start, packet, tree, answer>>
clientVars == <<port, sid, rid, encodedPassword, xhrs, calls, handshakes, last>>

(***************************************************************************)
(* JavaScript values                                                       *)
(***************************************************************************)
\* null / undefined, and a present value v
None == <<>>
Some(v) == <<v>>

\* String.prototype.charCodeAt: NaN (here -1) outside the string
NaN == 0 - 1
charCodeAt(s, i) == IF i >= 0 /\ i < Len(s) THEN s[i + 1] ELSE NaN

\* x & 0xFF: ToInt32(NaN) is 0; a code unit keeps its low 8 bits
BitAndFF(x) == IF x = NaN THEN 0 ELSE x % 256

\* x << n for x in 0..255 and n in {8, 16, 24}: ToInt32(x * 2^n), the signed
\* 32-bit value of the product (2^(32-n) values of x per wrap)
ShiftLeft(x, n) ==
    LET k == 2 ^ (32 - n)
        xr == x % k
    IN  IF 2 * xr >= k THEN (xr - k) * (2 ^ n) ELSE xr * (2 ^ n)

\* String.prototype.substring(a, b): NaN-free here; both ends are clamped to
\* 0..length and swapped when a > b
Clamp(x, n) == IF x < 0 THEN 0 ELSE IF x > n THEN n ELSE x
substring(s, a, b) ==
    LET ca == Clamp(a, Len(s))
        cb == Clamp(b, Len(s))
        lo == IF ca <= cb THEN ca ELSE cb
        hi == IF ca <= cb THEN cb ELSE ca
    IN  SubSeq(s, lo + 1, hi)

(***************************************************************************)
(* DaapPacket                                                              *)
(***************************************************************************)
CODE_LENGTH == 4
SIZE_LENGTH == 4
HEADER_LENGTH == CODE_LENGTH + SIZE_LENGTH

\* a parameter the caller omits: the constructor's start, the client's port
Undefined == 0 - 1

\* thrown by the constructor
EndOfPacketException == [exception |-> "EndOfPacketException"]
IsPacket(p) == "code" \in DOMAIN p

readUInt32(data, offset) ==
    ShiftLeft(BitAndFF(charCodeAt(data, offset)), 24)
    + ShiftLeft(BitAndFF(charCodeAt(data, offset + 1)), 16)
    + ShiftLeft(BitAndFF(charCodeAt(data, offset + 2)), 8)
    + BitAndFF(charCodeAt(data, offset + 3))

\* a variant of the header check that measures the buffer from its beginning
HeaderMissing_wholeBuffer(aChunk, aStart) == Len(aChunk) < HEADER_LENGTH

\* "length < HEADER_LENGTH" of the constructor
HeaderMissing(aChunk, aStart) == Len(aChunk) - aStart < HEADER_LENGTH

\* "length < HEADER_LENGTH + size" of the constructor; HEADER_LENGTH is moved to
\* the left-hand side, which is the same comparison on JavaScript's exact
\* numbers and keeps HEADER_LENGTH + size out of 32-bit arithmetic here
DataMissing(aChunk, aStart, aSize) == (Len(aChunk) - aStart) - HEADER_LENGTH < aSize

\* the constructor from "var length" on, with start and the size it reads
ConstructedAt(aChunk, st, aSize) ==
    IF HeaderMissing(aChunk, st) THEN EndOfPacketException
    ELSE IF DataMissing(aChunk, st, aSize) THEN EndOfPacketException
    ELSE [code   |-> substring(aChunk, st, st + CODE_LENGTH),
          data   |-> substring(aChunk, st + HEADER_LENGTH, st + HEADER_LENGTH + aSize),
          offset |-> 0]

\* "if start is not provided, start = 0"
StartOrZero(aStart) == IF aStart = Undefined THEN 0 ELSE aStart

\* new DaapPacket(chunk, start): the exception, or the object's private fields
DaapPacket(aChunk, aStart) ==
    ConstructedAt(aChunk, StartOrZero(aStart),
                  readUInt32(aChunk, StartOrZero(aStart) + CODE_LENGTH))

\* a variant of size that leaves the header out
size_payloadOnly(p) == Len(p.data)

\* a variant of size that leaves the size field out
size_withoutLength(p) == Len(p.data) + CODE_LENGTH

size(p) == Len(p.data) + HEADER_LENGTH
codeEquals(p, other) == p.code = other
convertToInt(p) == readUInt32(p.data, 0)
convertToString(p) == p.data

\* a variant of readNextChunk that goes back to the first child when it throws
Advanced_rewinds(p, result) ==
    IF IsPacket(result)
    THEN [thrown |-> FALSE, result |-> result,
          self |-> [p EXCEPT !.offset = p.offset + Len(result.data) + HEADER_LENGTH]]
    ELSE [thrown |-> TRUE, result |-> result, self |-> [p EXCEPT !.offset = 0]]

\* readNextChunk once the child is constructed: the exception (offset
\* unchanged), or the child and this packet with its offset moved
Advanced(p, result) ==
    IF IsPacket(result)
    THEN [thrown |-> FALSE, result |-> result,
          self |-> [p EXCEPT !.offset = p.offset + size(result)]]
    ELSE [thrown |-> TRUE, result |-> result, self |-> p]

readNextChunk(p) == Advanced(p, DaapPacket(p.data, p.offset))

\* seekFirst's loop, r being what readNextChunk just did: the result
\* (Some(child), or None for null) and this packet as the loop leaves it
RECURSIVE seekFirstLoop(_, _)
seekFirstLoop(r, refCode) ==
    IF r.thrown THEN [result |-> None, self |-> r.self]
    ELSE IF codeEquals(r.result, refCode) THEN [result |-> Some(r.result), self |-> r.self]
    ELSE seekFirstLoop(readNextChunk(r.self), refCode)

\* a variant of seekFirst that does not reset the offset
seekFirst_fromCursor(p, refCode) == seekFirstLoop(readNextChunk(p), refCode)

seekFirst(p, refCode) == seekFirstLoop(readNextChunk([p EXCEPT !.offset = 0]), refCode)

\* seek's loop, r being what readNextChunk just did: the matching children,
\* in order, and this packet as the loop leaves it
RECURSIVE seekLoop(_, _, _)
seekLoop(r, refCode, result) ==
    IF r.thrown THEN [result |-> result, self |-> r.self]
    ELSE seekLoop(readNextChunk(r.self), refCode,
                  IF codeEquals(r.result, refCode) THEN Append(result, r.result) ELSE result)

\* a variant of seek that does not reset the offset
seek_fromCursor(p, refCode) == seekLoop(readNextChunk(p), refCode, <<>>)

seek(p, refCode) == seekLoop(readNextChunk([p EXCEPT !.offset = 0]), refCode, <<>>)

(***************************************************************************)
(* The wire format, to build the buffers the decoder is given              *)
(***************************************************************************)
\* the four big-endian bytes of n, 0 <= n < 2^31
UInt32Bytes(n) ==
    <<(n \div (2 ^ 24)) % 256, (n \div (2 ^ 16)) % 256, (n \div (2 ^ 8)) % 256, n % 256>>

\* 4 byte tag | size (4 byte int) | data
Chunk(tag, data) == tag \o UInt32Bytes(Len(data)) \o data

\* the codes of the protocol, as char codes
mlog == <<109, 108, 111, 103>>
mstt == <<109, 115, 116, 116>>
mlid == <<109, 108, 105, 100>>
musr == <<109, 117, 115, 114>>
mlcl == <<109, 108, 99, 108>>
mlit == <<109, 108, 105, 116>>
miid == <<109, 105, 105, 100>>
asfm == <<97, 115, 102, 109>>
minm == <<109, 105, 110, 109>>
asal == <<97, 115, 97, 108>>
asar == <<97, 115, 97, 114>>
asgn == <<97, 115, 103, 110>>
astn == <<97, 115, 116, 110>>
astm == <<97, 115, 116, 109>>
assz == <<97, 115, 115, 122>>
asbr == <<97, 115, 98, 114>>
asyr == <<97, 115, 121, 114>>

(***************************************************************************)
(* The DaapClient closure as a value: the variables its functions write,   *)
(* and what they hand to the outside (requests sent, callbacks invoked).   *)
(***************************************************************************)
\* sent and invoked: what the running step has handed out so far
State ==
    [sid |-> sid, rid |-> rid, encodedPassword |-> encodedPassword,
     xhrs |-> xhrs, sent |-> <<>>, invoked |-> <<>>]

Becomes(st) ==
    /\ sid' = st.sid
    /\ rid' = st.rid
    /\ encodedPassword' = st.encodedPassword
    /\ xhrs' = st.xhrs

\* a function that returns normally, and one that throws (the state is the
\* one reached when the exception leaves it)
Return(st) == [state |-> st, exception |-> None]
Throw(st, e) == [state |-> st, exception |-> Some(e)]

\* a caller-supplied callback is invoked: callback(code) or callback(code, streams).
\* A callback is the caller's code and is identified by the call that supplied it;
\* sid and rid are the session as the callback finds it.
callback(st, l, code, streams) ==
    [st EXCEPT !.invoked = Append(@, [call |-> l, code |-> code, streams |-> streams,
                                      sid |-> st.sid, rid |-> st.rid])]

\* a number turned into a string by "+": its decimal digits as char codes,
\* after a "-" when it is negative (|n| is split as (|n| - 1) + 1 to stay
\* within 32 bits at -2^31)
RECURSIVE Digits(_)
Digits(n) == IF n < 10 THEN <<48 + n>> ELSE Digits(n \div 10) \o <<48 + (n % 10)>>
NegativeDigits(m) ==
    (IF m < 9 THEN <<>> ELSE Digits(IF m % 10 = 9 THEN m \div 10 + 1 ELSE m \div 10))
        \o <<48 + (((m % 10) + 1) % 10)>>
NumberToString(n) == IF n >= 0 THEN Digits(n) ELSE <<45>> \o NegativeDigits(0 - (n + 1))

\* btoa: base64 of a string of bytes, as char codes
Base64Char(i) ==
    IF i < 26 THEN 65 + i
    ELSE IF i < 52 THEN 71 + i
    ELSE IF i < 62 THEN i - 4
    ELSE IF i = 62 THEN 43 ELSE 47
RECURSIVE btoa(_)
btoa(s) ==
    IF Len(s) = 0 THEN <<>>
    ELSE LET b0 == s[1]
             b1 == IF Len(s) > 1 THEN s[2] ELSE 0
             b2 == IF Len(s) > 2 THEN s[3] ELSE 0
             c0 == Base64Char(b0 \div 4)
             c1 == Base64Char((b0 % 4) * 16 + b1 \div 16)
             c2 == IF Len(s) > 1 THEN Base64Char((b1 % 16) * 4 + b2 \div 64) ELSE 61
             c3 == IF Len(s) > 2 THEN Base64Char(b2 % 64) ELSE 61
         IN  <<c0, c1, c2, c3>> \o btoa(SubSeq(s, 4, Len(s)))

\* "admin:"
admin == <<97, 100, 109, 105, 110, 58>>

\* DaapHttpClient.setPassword
setPassword(st, password) == [st EXCEPT !.encodedPassword = Some(btoa(admin \o password))]

\* the request objects: new LoginRequestHandler(l), new UpdateRequestHandler(aSid, l),
\* new DatabaseRequestHandler(aSid, aRid, aServer, aCallback), with their private fields
LoginRequestHandler(l) == [kind |-> "login", l |-> l, sid |-> None, rid |-> None]
UpdateRequestHandler(aSid, l) == [kind |-> "update", l |-> l, sid |-> aSid, rid |-> None]
DatabaseRequestHandler(aSid, aRid, aCallback) ==
    [kind |-> "database", l |-> aCallback, sid |-> aSid, rid |-> aRid]

\* the fields the built client asks for
fields ==
    <<"dmap.itemid", "daap.songformat", "dmap.itemname", "daap.songalbum",
      "daap.songartist", "daap.songgenre", "daap.songtracknumber", "daap.songtime",
      "daap.songsize", "daap.songyear", "daap.songbitrate">>

\* the fields src/lib/DatabaseRequestHandler.js asks for
DatabaseRequestHandler_lib_fields ==
    <<"dmap.itemid", "daap.songformat", "dmap.itemname", "daap.songalbum",
      "daap.songartist", "daap.songgenre", "daap.songtracknumber">>

\* Array.prototype.join(): the elements with "," between them
RECURSIVE join(_)
join(a) ==
    IF a = <<>> THEN ""
    ELSE IF Len(a) = 1 THEN a[1]
    ELSE a[1] \o "," \o join(Tail(a))

\* a session id or revision id turned into a string by "+" (the texts of
\* the request URIs are never indexed and are kept as strings)
IdText(v) == IF v = None THEN "null" ELSE ToString(v[1])

\* getUri of the DatabaseRequestHandler of src/lib
DatabaseRequestHandler_lib_getUri(request) ==
    "databases/1/items?type=music&session-id=" \o IdText(request.sid)
        \o "&revision-id=" \o IdText(request.rid)
        \o "&meta=" \o join(DatabaseRequestHandler_lib_fields)

\* getUri of the three handlers of the built client
getUri(request) ==
    IF request.kind = "login" THEN "login"
    ELSE IF request.kind = "update" THEN "update?session-id=" \o IdText(request.sid)
    ELSE "databases/1/items?type=music&session-id=" \o IdText(request.sid)
             \o "&revision-id=" \o IdText(request.rid)
             \o "&meta=" \o join(fields)

\* "http://", ":", "/", ":/3689", and undefined turned into a string by "+"
Http == <<104, 116, 116, 112, 58, 47, 47>>
Colon == <<58>>
Slash == <<47>>
ColonSlash3689 == <<58, 47, 51, 54, 56, 57>>
UndefinedText == <<117, 110, 100, 101, 102, 105, 110, 101, 100>>

\* the ip given to new DaapClient(ip, port): "10.0.1.6"
ip == <<49, 48, 46, 48, 46, 49, 46, 54>>

\* port turned into a string by "+"
PortText == IF port = Undefined THEN UndefinedText ELSE NumberToString(port)

\* xhr.open's address up to request.getUri(): "http://" + ip + ":" + port + "/",
\* ip and port being the parameters of the DaapClient around the executor
Origin == Http \o ip \o Colon \o PortText \o Slash

\* DaapHttpClient.execute, up to xhr.send(): the request is with the transport
execute(st, request) ==
    LET xhr == [request |-> request, origin |-> Origin, uri |-> getUri(request),
                authorization |-> st.encodedPassword]
    IN  [st EXCEPT !.xhrs = @ \cup {xhr}, !.sent = Append(@, xhr)]

\* LoginListener
\* a variant of sidUpdated that builds the SessionRefresh before it stores the sid
LoginListener_sidUpdated_stale(st, l, aSid) ==
    [execute(st, UpdateRequestHandler(st.sid, l)) EXCEPT !.sid = Some(aSid)]

\* a variant of sidUpdated that does not store the sid
LoginListener_sidUpdated_unstored(st, l, aSid) ==
    execute(st, UpdateRequestHandler(Some(aSid), l))

\* a variant of sidUpdated that also sends the Login request again
LoginListener_sidUpdated_again(st, l, aSid) ==
    execute(execute([st EXCEPT !.sid = Some(aSid)], UpdateRequestHandler(Some(aSid), l)),
            LoginRequestHandler(l))

LoginListener_sidUpdated(st, l, aSid) ==
    LET s1 == [st EXCEPT !.sid = Some(aSid)]
    IN  execute(s1, UpdateRequestHandler(s1.sid, l))

\* a variant of ridUpdated that invokes the callback before it stores the rid
LoginListener_ridUpdated_late(st, l, aRid) ==
    [callback(st, l, 200, None) EXCEPT !.rid = Some(aRid)]

LoginListener_ridUpdated(st, l, aRid) ==
    callback([st EXCEPT !.rid = Some(aRid)], l, 200, None)

\* a variant of fail that sends the Login request again
LoginListener_fail_retries(st, l, code) ==
    execute(callback(st, l, code, None), LoginRequestHandler(l))

LoginListener_fail(st, l, code) == callback(st, l, code, None)

\* LoginRequestHandler: found is what seekFirst('mlid') returned, and
\* null.convertToInt() is a TypeError
LoginRequestHandler_found(st, request, found) ==
    IF found = None THEN Throw(st, "TypeError")
    ELSE Return(LoginListener_sidUpdated(st, request.l, convertToInt(found[1])))

LoginRequestHandler_handleResponse(st, request, pkt) ==
    LoginRequestHandler_found(st, request, seekFirst(pkt, mlid).result)

\* a variant of LoginRequestHandler.fail that goes on to the SessionRefresh
LoginRequestHandler_fail_goesOn(st, request, code) ==
    LoginListener_sidUpdated(LoginListener_fail(st, request.l, code), request.l, 0)

LoginRequestHandler_fail(st, request, code) == LoginListener_fail(st, request.l, code)

\* UpdateRequestHandler: found is what seekFirst('musr') returned
UpdateRequestHandler_found(st, request, found) ==
    IF found = None THEN Throw(st, "TypeError")
    ELSE Return(LoginListener_ridUpdated(st, request.l, convertToInt(found[1])))

UpdateRequestHandler_handleResponse(st, request, pkt) ==
    UpdateRequestHandler_found(st, request, seekFirst(pkt, musr).result)

UpdateRequestHandler_fail(st, request, code) == LoginListener_fail(st, request.l, code)

\* DatabaseRequestHandler
IntOrMinusOne(found) == IF found # None THEN convertToInt(found[1]) ELSE 0 - 1
extractInt(pkt, code) == IntOrMinusOne(seekFirst(pkt, code).result)

StringOrEmpty(found) == IF found # None THEN convertToString(found[1]) ELSE <<>>
extractString(pkt, code) == StringOrEmpty(seekFirst(pkt, code).result)

\* x >> 16 on a 32-bit signed value
ShiftRight16(x) == x \div 65536

\* the DaapClient's server string: "http://" + ip + ":/3689" when the port is
\* omitted, "http://" + ip + ":" + port otherwise
server ==
    IF port = Undefined THEN Http \o ip \o ColonSlash3689
    ELSE Http \o ip \o Colon \o NumberToString(port)

\* "/databases/1/items/", ".", "?session-id=", "-"
ItemsPath == <<47, 100, 97, 116, 97, 98, 97, 115, 101, 115, 47, 49, 47, 105, 116, 101, 109, 115, 47>>
Dot == <<46>>
SessionParameter == <<63, 115, 101, 115, 115, 105, 111, 110, 45, 105, 100, 61>>
Dash == <<45>>

\* the stream object; sid is the handler's sid, a number
DaapStream(request, m, daapSongId, songFormat) ==
    [uri |-> server \o ItemsPath \o NumberToString(daapSongId) \o Dot \o songFormat
             \o SessionParameter \o NumberToString(request.sid[1]),
     trackNumber |-> extractInt(m, astn),
     title |-> extractString(m, minm),
     album |-> extractString(m, asal),
     artist |-> extractString(m, asar),
     genre |-> extractString(m, asgn),
     id |-> NumberToString(request.sid[1]) \o Dash \o NumberToString(daapSongId),
     duration |-> extractInt(m, astm),
     size |-> extractInt(m, assz),
     format |-> songFormat,
     bitrate |-> ShiftRight16(extractInt(m, asbr)),
     year |-> ShiftRight16(extractInt(m, asyr))]

createDaapStream(request, m) ==
    DaapStream(request, m, extractInt(m, miid), extractString(m, asfm))

\* a variant of the loop that walks mlits from the end
audioStreams_reversed(request, mlits) ==
    [i \in 1..Len(mlits) |-> createDaapStream(request, mlits[Len(mlits) + 1 - i])]

\* the loop over mlits
audioStreams(request, mlits) ==
    [i \in 1..Len(mlits) |-> createDaapStream(request, mlits[i])]

\* found is what seekFirst("mlcl") returned, and null.seek() is a TypeError
DatabaseRequestHandler_found(st, request, found) ==
    IF found = None THEN Throw(st, "TypeError")
    ELSE Return(callback(st, request.l, 200,
                         Some(audioStreams(request, seek(found[1], mlit).result))))

DatabaseRequestHandler_handleResponse(st, request, pkt) ==
    DatabaseRequestHandler_found(st, request, seekFirst(pkt, mlcl).result)

\* a variant of fail that forgets the revision id
DatabaseRequestHandler_fail_forgets(st, request, code) ==
    [callback(st, request.l, code, None) EXCEPT !.rid = None]

DatabaseRequestHandler_fail(st, request, code) == callback(st, request.l, code, None)

\* request.handleResponse(packet) and request.fail(code), by the request's type
handleResponse(st, request, pkt) ==
    IF request.kind = "login" THEN LoginRequestHandler_handleResponse(st, request, pkt)
    ELSE IF request.kind = "update" THEN UpdateRequestHandler_handleResponse(st, request, pkt)
    ELSE DatabaseRequestHandler_handleResponse(st, request, pkt)

fail(st, request, code) ==
    IF request.kind = "login" THEN LoginRequestHandler_fail(st, request, code)
    ELSE IF request.kind = "update" THEN UpdateRequestHandler_fail(st, request, code)
    ELSE DatabaseRequestHandler_fail(st, request, code)

\* xhr.onreadystatechange at readyState 4, as set by DaapHttpClient.execute:
\* the state it leaves, and what it did (decoding: new DaapPacket was run on
\* the body; handled: request.handleResponse was called; failed: the code given
\* to request.fail; uncaught: the exception it rethrew)
Done(st, decoding, handled, failed, uncaught) ==
    [state |-> st, decoding |-> decoding, handled |-> handled, failed |-> failed,
     uncaught |-> uncaught]

\* the catch clause, r being how request.handleResponse(packet) ended
Caught(request, r) ==
    IF r.exception = Some("EndOfPacketException")
    THEN Done(fail(r.state, request, 400), TRUE, TRUE, Some(400), None)
    ELSE Done(r.state, TRUE, TRUE, None, r.exception)

\* the try block, pkt being what new DaapPacket(xhr.responseText) gave
Tried(st, request, pkt) ==
    IF ~IsPacket(pkt) THEN Done(fail(st, request, 400), TRUE, FALSE, Some(400), None)
    ELSE Caught(request, handleResponse(st, request, pkt))

\* a variant of onreadystatechange that decodes the body whatever the status
onreadystatechange_decodes(st, request, status, responseText) ==
    Tried(st, request, DaapPacket(responseText, Undefined))

onreadystatechange(st, request, status, responseText) ==
    IF status # 200 THEN Done(fail(st, request, status), FALSE, FALSE, Some(status), None)
    ELSE Tried(st, request, DaapPacket(responseText, Undefined))

\* DaapClient
\* a variant of checkLogin that throws only when both ids are missing
checkLogin_both(st) ==
    IF st.sid = None /\ st.rid = None THEN Throw(st, "Login not completed.") ELSE Return(st)

checkLogin(st) ==
    IF st.sid = None \/ st.rid = None THEN Throw(st, "Login not completed.") ELSE Return(st)

login(st, aCallback) == execute(st, LoginRequestHandler(aCallback))

secureLogin(st, password, aCallback) ==
    login(IF password # None THEN setPassword(st, password[1]) ELSE st, aCallback)

\* fetchStreams after checkLogin(), c being how checkLogin ended
Checked(st, c, aCallback) ==
    IF c.exception # None THEN c
    ELSE Return(execute(st, DatabaseRequestHandler(st.sid, st.rid, aCallback)))

fetchStreams(st, aCallback) == Checked(st, checkLogin(st), aCallback)

(***************************************************************************)
(* PacketSpec: new DaapPacket(chunk, start) on every buffer of the bounds  *)
(***************************************************************************)
\* bytes of data that may follow a header
MaxData == 3
\* the offsets the constructor is given
MaxStart == 2

\* the code units a size field is made of: small sizes, the sign bit of a
\* byte (128, 255), and units above 255 as String.fromCharCode(-56) and the
\* x-user-defined charset (0xF780 + byte) produce them
SizeUnits == {0, 1, 2, 127, 128, 255, 65480, 63360}

Zeros(n) == [i \in 1..n |-> 0]

\* a header with any size field, followed by 0..MaxData bytes, and every
\* prefix of it (a truncated header included)
FullBuffers ==
    { mlog \o <<b0, b1, b2, b3>> \o Zeros(n) :
        b0 \in SizeUnits, b1 \in SizeUnits, b2 \in SizeUnits, b3 \in SizeUnits,
        n \in 0..MaxData }
Buffers ==
    FullBuffers \cup { SubSeq(mlog \o <<b0, b1, b2>>, 1, n) : b0 \in SizeUnits,
                       b1 \in SizeUnits, b2 \in SizeUnits, n \in 0..7 }

Starts == {Undefined} \cup (0..MaxStart)

NotConstructed == [state |-> "not constructed"]

\* a step: an API call (op, call, password) or a response (op = "response",
\* call = the call the request belongs to, kind, status, body, and for a
\* SessionRefresh the mlid the server gave to the call's Login request), and
\* what the code did in it: the requests it sent, the callbacks it invoked,
\* the error it threw, and what onreadystatechange did
NoStep ==
    [op |-> "none", call |-> 0, password |-> None, kind |-> "none", status |-> 0,
     body |-> <<>>, mlid |-> None, musr |-> None, sent |-> <<>>, invoked |-> <<>>,
     error |-> None, decoding |-> FALSE, handled |-> FALSE, failed |-> None,
     overtaken |-> FALSE]

\* the state of a DaapClient right after construction
ClientInit ==
    /\ sid = None
    /\ rid = None
    /\ encodedPassword = None
    /\ xhrs = {}
    /\ calls = <<>>
    /\ handshakes = {}
    /\ last = NoStep

\* no method was called yet
NoAnswer ==
    [method |-> "none", refCode |-> <<>>, at |-> 0, target |-> None, result |-> None,
     thrown |-> None]

\* the port of the documented example, new DaapClient("10.0.1.6", 3690)
ExamplePort == 3690

PacketInit ==
    /\ chunk \in Buffers
    /\ start \in Starts
    /\ packet = NotConstructed
    /\ tree = None
    /\ answer = NoAnswer
    /\ port = ExamplePort
    /\ ClientInit

\* new DaapPacket(chunk, start)
Construct ==
    /\ packet = NotConstructed
    /\ packet' = DaapPacket(chunk, start)
    /\ UNCHANGED <<chunk, start, tree, answer>>
    /\ UNCHANGED clientVars

PacketNext == Construct

PacketSpec == PacketInit /\ [][PacketNext]_vars

(***************************************************************************)
(* Claims on the constructor                                               *)
(***************************************************************************)
\* the offset the constructor reads at, and the bytes from it to the end
Offset == IF start = Undefined THEN 0 ELSE start
Remaining == Len(chunk) - Offset
Constructed == packet # NotConstructed

\* the size field at Offset read as the claim reads it: four bytes b0..b3,
\* unsigned, b0 * 2^24 + b1 * 2^16 + b2 * 2^8 + b3 (2^31 and more when b0 >= 128)
SizeByte(i) == chunk[Offset + CODE_LENGTH + i + 1] % 256
DeclaredExceeds(n) ==
    \/ SizeByte(0) >= 128
    \/ SizeByte(0) * (2 ^ 24) + SizeByte(1) * (2 ^ 16) + SizeByte(2) * (2 ^ 8) + SizeByte(3) > n

\* C9: at every offset where fewer than 8 bytes remain to the end of the
\* buffer, construction throws EndOfPacketException and yields no chunk.
C9_IncompleteHeader ==
    (Constructed /\ Remaining < 8) => packet = EndOfPacketException

\* C9 witness: the test's 5-byte buffer "mlog\0" was given and rejected
C9_Witness ==
    /\ chunk = mlog \o <<0>>
    /\ start = 0
    /\ packet = EndOfPacketException

\* C10 as claimed: with a complete header whose declared unsigned 32-bit
\* length exceeds the bytes remaining after the header, construction throws
\* EndOfPacketException and yields no chunk.
C10_IncompleteBody ==
    (Constructed /\ Remaining >= 8 /\ DeclaredExceeds(Remaining - 8))
        => packet = EndOfPacketException

\* the declared length as an unsigned number, when it is below 2^31
DeclaredLength ==
    SizeByte(0) * (2 ^ 24) + SizeByte(1) * (2 ^ 16) + SizeByte(2) * (2 ^ 8) + SizeByte(3)
\* the position holds a chunk: 8 bytes of header remain, and the declared
\* length after them
ValidPosition == Remaining >= 8 /\ ~DeclaredExceeds(Remaining - 8)

\* C11 as claimed: decoding at a position succeeds if and only if at least 8
\* bytes remain and at least the declared length remains after the header;
\* on success the payload is the declared length of bytes after the header
\* and size() is 8 + length.
C11_DecodeIff ==
    Constructed =>
        /\ IsPacket(packet) <=> ValidPosition
        /\ IsPacket(packet) =>
               /\ ValidPosition
               /\ packet.data = SubSeq(chunk, Offset + HEADER_LENGTH + 1,
                                       Offset + HEADER_LENGTH + DeclaredLength)
               /\ size(packet) = HEADER_LENGTH + DeclaredLength

(***************************************************************************)
(* Spec: one DaapClient, its callers and the transport                     *)
(***************************************************************************)
\* API calls made on the client
MaxCalls == 3

\* what the server hands out
SessionIds == {31, 32}
RevisionIds == {5, 6}

\* the status codes the transport reports besides 200
FailureCodes == {400, 401}

\* the password a caller may give to secureLogin ("pw"); None when omitted
Passwords == {None, Some(<<112, 119>>)}

mupd == <<109, 117, 112, 100>>
adbs == <<97, 100, 98, 115>>
Status200 == Chunk(mstt, UInt32Bytes(200))

\* response bodies: well-formed answers to the three requests
LoginBody(s) == Chunk(mlog, Status200 \o Chunk(mlid, UInt32Bytes(s)))
UpdateBody(r) == Chunk(mupd, Status200 \o Chunk(musr, UInt32Bytes(r)))
Song ==
    Chunk(mlit, Chunk(miid, UInt32Bytes(100)) \o Chunk(asfm, <<109, 112, 51>>)
                \o Chunk(minm, <<83, 111, 110, 103>>))
RECURSIVE Songs(_)
Songs(n) == IF n = 0 THEN <<>> ELSE Song \o Songs(n - 1)
DatabaseBody(n) == Chunk(adbs, Status200 \o Chunk(mlcl, Songs(n)))
\* a well-formed body without the field the request is after
NoFieldBody == Chunk(mlog, Status200)
\* bodies that are no chunk at offset 0: empty, a header that declares 24
\* bytes and has none (the test's), a header that declares 2^31 bytes
EmptyBody == <<>>
NoDataBody == mlog \o <<0, 0, 0, 24>>
HugeBody == mlog \o <<128, 0, 0, 0>>
UndecodableBodies == {EmptyBody, NoDataBody, HugeBody}

\* what the transport may deliver to a request: a failure status (its body is
\* not looked at), or 200 and a body: one that is no chunk, one without the
\* field, or the answer to the request. mlid and musr say what the server
\* put in the body.
Response(status, body, aMlid, aMusr) ==
    [status |-> status, body |-> body, mlid |-> aMlid, musr |-> aMusr]
BadResponses ==
    {Response(c, EmptyBody, None, None) : c \in FailureCodes}
    \cup {Response(200, b, None, None) : b \in UndecodableBodies \cup {NoFieldBody}}
LoginResponses ==
    BadResponses \cup {Response(200, LoginBody(s), Some(s), None) : s \in SessionIds}
UpdateResponses ==
    BadResponses \cup {Response(200, UpdateBody(r), None, Some(r)) : r \in RevisionIds}
DatabaseResponses ==
    BadResponses \cup {Response(200, DatabaseBody(n), None, None) : n \in 0..1}
Responses(kind) ==
    IF kind = "login" THEN LoginResponses
    ELSE IF kind = "update" THEN UpdateResponses
    ELSE DatabaseResponses

\* the port "assumed" when it is omitted
DefaultPort == 3689
\* new DaapClient(ip) and new DaapClient(ip, 3689)
Ports == {Undefined, DefaultPort}

Init ==
    /\ chunk = <<>>
    /\ start = Undefined
    /\ packet = NotConstructed
    /\ tree = None
    /\ answer = NoAnswer
    /\ port \in Ports
    /\ ClientInit

\* what is kept of a call: the operation (secureLogin is a login), the error
\* it threw, the status of the answer to its Login request, the mlid in that
\* answer while its SessionRefresh request is outstanding, whether the Login
\* answer of another call stored a session id meanwhile, how many times
\* its callback was invoked, whether a request was with the transport when
\* the call was made, and how many Login and SessionRefresh requests were
\* sent for it
NewCall(op, error) ==
    [op |-> op, error |-> error, login |-> None, mlid |-> None, overtaken |-> FALSE,
     invoked |-> 0, busy |-> xhrs # {}, logins |-> 0, updates |-> 0]

\* the invocations of a step are counted on their calls
InvokedOf(invocations, l) == Len(SelectSeq(invocations, LAMBDA e : e.call = l))
Noted(cs, invocations) ==
    [l \in DOMAIN cs |-> [cs[l] EXCEPT !.invoked = @ + InvokedOf(invocations, l)]]

\* the requests of a step are counted on their calls, by kind
SentOf(sent, l, kind) ==
    Len(SelectSeq(sent, LAMBDA x : x.request.l = l /\ x.request.kind = kind))
Counted(cs, sent) ==
    [l \in DOMAIN cs |-> [cs[l] EXCEPT !.logins = @ + SentOf(sent, l, "login"),
                                       !.updates = @ + SentOf(sent, l, "update")]]

\* an API call l has run and left st: the client's state and the history
Called(op, password, l, st, error) ==
    /\ Becomes(st)
    /\ calls' = Counted(Noted(Append(calls, NewCall(IF op = "fetchStreams" THEN op
                                                    ELSE "login", error)),
                              st.invoked), st.sent)
    /\ last' = [NoStep EXCEPT !.op = op, !.call = l, !.password = password,
                              !.sent = st.sent, !.invoked = st.invoked, !.error = error]
    /\ UNCHANGED <<port, handshakes>>
    /\ UNCHANGED packetVars

\* a caller calls client.login(callback); calls made from inside a callback
\* are calls made right after the step that invoked it (no handler does
\* anything after invoking a callback)
Login ==
    /\ Len(calls) < MaxCalls
    /\ Called("login", None, Len(calls) + 1, login(State, Len(calls) + 1), None)

\* a caller calls client.secureLogin(password, callback)
SecureLogin ==
    /\ Len(calls) < MaxCalls
    /\ \E password \in Passwords :
        Called("secureLogin", password, Len(calls) + 1,
               secureLogin(State, password, Len(calls) + 1), None)

\* fetchStreams has returned or thrown, r being how it ended
Fetched(l, r) == Called("fetchStreams", None, l, r.state, r.exception)

\* a caller calls client.fetchStreams(callback)
FetchStreams ==
    /\ Len(calls) < MaxCalls
    /\ Fetched(Len(calls) + 1, fetchStreams(State, Len(calls) + 1))

\* the calls once the answer to a request of call l is noted
Answered(l, kind, resp) ==
    IF kind = "login"
    THEN [j \in DOMAIN calls |->
            IF j = l THEN [calls[j] EXCEPT !.login = Some(resp.status), !.mlid = resp.mlid]
            ELSE IF resp.mlid # None /\ calls[j].mlid # None
            THEN [calls[j] EXCEPT !.overtaken = TRUE]
            ELSE calls[j]]
    ELSE IF kind = "update" THEN [calls EXCEPT ![l].mlid = None, ![l].overtaken = FALSE]
    ELSE calls

\* onreadystatechange has run on the answer resp to a request of call l,
\* r being what it did
Responded(l, kind, resp, r) ==
    /\ Becomes(r.state)
    /\ calls' = Counted(Noted(Answered(l, kind, resp), r.state.invoked), r.state.sent)
    /\ handshakes' =
           IF kind = "update" /\ resp.musr # None /\ calls[l].mlid # None
           THEN handshakes \cup {<<calls[l].mlid[1], resp.musr[1]>>}
           ELSE handshakes
    /\ last' = [NoStep EXCEPT !.op = "response", !.call = l, !.kind = kind,
                              !.status = resp.status, !.body = resp.body,
                              !.mlid = IF kind = "update" THEN calls[l].mlid ELSE resp.mlid,
                              !.musr = resp.musr,
                              !.sent = r.state.sent, !.invoked = r.state.invoked,
                              !.error = r.uncaught, !.decoding = r.decoding,
                              !.handled = r.handled, !.failed = r.failed,
                              !.overtaken = calls[l].overtaken]
    /\ UNCHANGED port
    /\ UNCHANGED packetVars

\* the transport answers a request: its xhr reaches readyState 4
Respond ==
    \E xhr \in xhrs : \E resp \in Responses(xhr.request.kind) :
        Responded(xhr.request.l, xhr.request.kind, resp,
                  onreadystatechange([State EXCEPT !.xhrs = @ \ {xhr}], xhr.request,
                                     resp.status, resp.body))

Next ==
    \/ Login
    \/ SecureLogin
    \/ FetchStreams
    \/ Respond

Spec == Init /\ [][Next]_vars

(***************************************************************************)
(* DecoderSpec: a chunk is encoded, decoded at offset 0, and the methods   *)
(* of the DaapPacket and the helpers of DatabaseRequestHandler are called  *)
(* on it                                                                   *)
(***************************************************************************)
\* children of the top chunk of a buffer
MaxKids == 2

\* a chunk before it is encoded: a tag, and raw bytes or child chunks
Leaf(tag, raw) == [tag |-> tag, leaf |-> TRUE, raw |-> raw, kids |-> <<>>]
Node(tag, kids) == [tag |-> tag, leaf |-> FALSE, raw |-> <<>>, kids |-> kids]

\* its encoding: tag, big-endian length, payload; the payload of a chunk
\* with children is their encodings one after the other
RECURSIVE Encoded(_)
RECURSIVE Joined(_)
Joined(kids) == IF kids = <<>> THEN <<>> ELSE Encoded(Head(kids)) \o Joined(Tail(kids))
Payload(n) == IF n.leaf THEN n.raw ELSE Joined(n.kids)
Encoded(n) == Chunk(n.tag, Payload(n))

\* "other", the code of the test "seek unknown code"; "Song", "mp3",
\* "Song title"
other == <<111, 116, 104, 101, 114>>
SongText == <<83, 111, 110, 103>>
Mp3Text == <<109, 112, 51>>
SongTitleText == <<83, 111, 110, 103, 32, 116, 105, 116, 108, 101>>

\* children of an mlog: the test's mstt = 200 (written with the char code of
\* -56) and mlid = 31, 15, 4; an mlid of 2^31; an empty mstt; a string; an
\* mlcl holding an mlid of its own
LogKids ==
    {Leaf(mstt, <<0, 0, 0, 65480>>), Leaf(mlid, UInt32Bytes(31)),
     Leaf(mlid, UInt32Bytes(15)), Leaf(mlid, UInt32Bytes(4)),
     Leaf(mlid, <<128, 0, 0, 0>>), Leaf(mstt, <<>>), Leaf(minm, SongText),
     Node(mlcl, <<Leaf(mlid, UInt32Bytes(7))>>)}
LogTrees == {Node(mlog, ks) : ks \in UNION {[1..n -> LogKids] : n \in 0..MaxKids}}
\* the two buffers of the tests
TestTrees ==
    {Node(mlog, <<Leaf(mstt, <<0, 0, 0, 65480>>), Leaf(mlid, UInt32Bytes(31))>>),
     Node(mlog, <<Leaf(mstt, <<0, 0, 0, 65480>>), Leaf(mlid, UInt32Bytes(15)),
                  Leaf(mlid, UInt32Bytes(4))>>)}

\* payloads that are data, not chunks: a number, a text, 8 bytes whose second
\* half has its top bit set, 260 zeros; 8 bytes whose second half has its top
\* bit set followed by 24 zeros, or by the bytes of an mlid chunk
RawPayloads ==
    {UInt32Bytes(31), SongTitleText, mlid \o <<128, 0, 0, 0>>, Zeros(260),
     mlid \o <<128, 0, 0, 0>> \o Zeros(24),
     mlid \o <<255, 255, 255, 248>> \o Chunk(mlid, UInt32Bytes(31))}
RawTrees == {Leaf(mlog, r) : r \in RawPayloads}

\* one mlid of any four code units
Units == {0, 1, 127, 128, 255, 65480}
IntTrees ==
    {Node(mlog, <<Leaf(mlid, <<b0, b1, b2, b3>>)>>) :
        b0 \in Units, b1 \in {0, 255}, b2 \in {0, 255}, b3 \in Units}

\* entries of a catalog: each field absent or present, the numbers with and
\* without their top bit; asbr and asyr carry their value in the upper 16 bits
Absent == {<<>>}
OneOf(tag, raws) == Absent \cup {<<Leaf(tag, r)>> : r \in raws}
Texts == <<Leaf(asfm, Mp3Text), Leaf(minm, SongText)>>
Others ==
    <<Leaf(astn, UInt32Bytes(3)), Leaf(astm, <<0, 3, 0, 0>>), Leaf(assz, <<0, 0, 255, 255>>),
      Leaf(asal, <<65>>), Leaf(asar, <<66>>), Leaf(asgn, <<67>>)>>
ItemKids ==
    {i \o n \o b \o y \o o :
        i \in OneOf(miid, {UInt32Bytes(100), <<128, 0, 0, 0>>}),
        n \in Absent \cup {Texts},
        b \in OneOf(asbr, {<<0, 128, 0, 1>>, <<128, 0, 0, 0>>}),
        y \in OneOf(asyr, {<<7, 208, 0, 0>>, <<255, 255, 0, 0>>}),
        o \in Absent \cup {Others}}
ItemTrees ==
    {Node(mlit, ks) : ks \in ItemKids}
    \cup {Node(mlit, <<Leaf(miid, UInt32Bytes(100)), Leaf(miid, UInt32Bytes(101)),
                       Leaf(minm, SongText), Leaf(minm, SongTitleText)>>),
          Leaf(mlit, miid \o <<128, 0, 0, 0>>),
          Leaf(mlit, astn \o <<128, 0, 0, 0>>),
          Leaf(mlit, <<>>)}

\* answers to a CatalogList request: under the first mlcl up to MaxKids
\* children, entries and others; possibly a second mlcl with an entry
Entry(id, title) ==
    Node(mlit, <<Leaf(miid, UInt32Bytes(id)), Leaf(asfm, Mp3Text), Leaf(minm, title)>>)
ListKids ==
    {Entry(100, SongText), Entry(101, SongTitleText), Leaf(mstt, UInt32Bytes(200)),
     Node(mlit, <<Leaf(miid, UInt32Bytes(102)), Entry(103, SongText)>>)}
CatalogTrees ==
    {Node(adbs, <<Leaf(mstt, UInt32Bytes(200)), Node(mlcl, ks)>> \o later) :
        ks \in UNION {[1..n -> ListKids] : n \in 0..MaxKids},
        later \in {<<>>, <<Node(mlcl, <<Entry(104, SongText)>>)>>}}

\* a payload of complete children followed by bytes that are no complete
\* child; such a payload is bytes, not the encoding of children
Torn(tag, kids, rest) ==
    [tag |-> tag, leaf |-> TRUE, raw |-> Joined(kids) \o rest, kids |-> kids]
\* the leftover: 1, 3 or 7 bytes, and a header that declares 4 bytes and has 2
Rests == {<<1>>, <<109, 108, 105>>, mlid \o <<0, 0, 0>>, mlid \o <<0, 0, 0, 4, 0, 0>>}
TornTrees ==
    {Torn(mlog, ks, rest) :
        ks \in {<<>>, <<Leaf(mlid, UInt32Bytes(31))>>,
                <<Leaf(mstt, UInt32Bytes(200)), Leaf(mlid, UInt32Bytes(15)),
                  Leaf(mlid, UInt32Bytes(4))>>},
        rest \in Rests}

\* one mlid of fewer than four bytes, and entries whose numbers have two
ShortPayloads == {<<>>, <<7>>, <<7, 208>>, <<1, 2, 3>>, <<128>>, <<128, 0>>, <<65480, 1>>}
ShortTrees ==
    {Node(mlog, <<Leaf(mlid, r)>>) : r \in ShortPayloads}
    \cup {Node(mlit, <<Leaf(asyr, r), Leaf(asbr, r), Leaf(astn, r)>>) :
             r \in {<<7, 208>>, <<128, 0>>}}

DecoderTrees ==
    LogTrees \cup TestTrees \cup RawTrees \cup IntTrees \cup ItemTrees \cup CatalogTrees
        \cup TornTrees \cup ShortTrees

\* the codes the methods are asked for
SeekTags == {mlid, mstt, minm, mlcl, musr, other}
FieldTags == {miid, asfm, minm, asal, asar, asgn, astn, astm, assz, asbr, asyr}

DecoderInit ==
    /\ tree \in DecoderTrees
    /\ chunk = Encoded(tree)
    /\ start = Undefined
    /\ packet = NotConstructed
    /\ answer = NoAnswer
    /\ port = ExamplePort
    /\ ClientInit

\* a method was called
Method(method, refCode, at, target, result, thrown) ==
    [method |-> method, refCode |-> refCode, at |-> at, target |-> target,
     result |-> result, thrown |-> thrown]

\* seekFirst or seek has run on the packet, r being what it gave (at: the
\* offset the packet had when the method was called)
Sought(method, refCode, r) ==
    /\ packet' = r.self
    /\ answer' = Method(method, refCode, packet.offset, None, r.result, None)
    /\ UNCHANGED <<chunk, start, tree>>
    /\ UNCHANGED clientVars

\* packet.seekFirst(refCode)
SeekFirst ==
    /\ IsPacket(packet)
    /\ tree.tag = mlog
    /\ \E refCode \in SeekTags : Sought("seekFirst", refCode, seekFirst(packet, refCode))

\* packet.seek(refCode)
Seek ==
    /\ IsPacket(packet)
    /\ tree.tag = mlog
    /\ \E refCode \in SeekTags : Sought("seek", refCode, seek(packet, refCode))

\* readNextChunk has run at offset at, r being what it gave
Read(at, r) ==
    /\ packet' = r.self
    /\ answer' = Method("readNextChunk", <<>>, at, None,
                        IF r.thrown THEN None ELSE Some(r.result),
                        IF r.thrown THEN Some(r.result) ELSE None)
    /\ UNCHANGED <<chunk, start, tree>>
    /\ UNCHANGED clientVars

\* packet.readNextChunk()
ReadNextChunk ==
    /\ IsPacket(packet)
    /\ tree.tag = mlog
    /\ Read(packet.offset, readNextChunk(packet))

\* convertToInt() on the chunk seekFirst just returned
ConvertToInt ==
    /\ answer.method = "seekFirst"
    /\ answer.result # None
    /\ answer' = Method("convertToInt", answer.refCode, 0, answer.result,
                        convertToInt(answer.result[1]), None)
    /\ UNCHANGED <<chunk, start, packet, tree>>
    /\ UNCHANGED clientVars

\* a helper of DatabaseRequestHandler has run on the packet; it leaves the
\* packet as its last seekFirst left it
Helped(method, refCode, lastCode, result) ==
    /\ packet' = seekFirst(packet, lastCode).self
    /\ answer' = Method(method, refCode, 0, None, result, None)
    /\ UNCHANGED <<chunk, start, tree>>
    /\ UNCHANGED clientVars

\* extractInt(packet, code)
ExtractInt ==
    /\ IsPacket(packet)
    /\ tree.tag = mlit
    /\ \E code \in FieldTags : Helped("extractInt", code, code, extractInt(packet, code))

\* extractString(packet, code)
ExtractString ==
    /\ IsPacket(packet)
    /\ tree.tag = mlit
    /\ \E code \in FieldTags :
        Helped("extractString", code, code, extractString(packet, code))

\* createDaapStream(packet) of a DatabaseRequestHandler built with sid s
CreateDaapStream ==
    /\ IsPacket(packet)
    /\ tree.tag = mlit
    /\ \E s \in SessionIds :
        Helped("createDaapStream", NumberToString(s), asyr,
               createDaapStream(DatabaseRequestHandler(Some(s), Some(5), 1), packet))

\* handleResponse has run, r being how it ended: what the callback was given
Handled(s, r) ==
    Helped("handleResponse", NumberToString(s), mlcl, r.state.invoked)

\* handleResponse(packet) of a DatabaseRequestHandler built with sid s
HandleResponse ==
    /\ IsPacket(packet)
    /\ tree.tag = adbs
    /\ \E s \in SessionIds :
        Handled(s, DatabaseRequestHandler_handleResponse(
                       State, DatabaseRequestHandler(Some(s), Some(5), 1), packet))

DecoderNext ==
    \/ Construct
    \/ SeekFirst
    \/ Seek
    \/ ReadNextChunk
    \/ ConvertToInt
    \/ ExtractInt
    \/ ExtractString
    \/ CreateDaapStream
    \/ HandleResponse

DecoderSpec == DecoderInit /\ [][DecoderNext]_vars

(***************************************************************************)
(* Claims on the client                                                    *)
(***************************************************************************)
\* the last step answered a request of the given kind
Answer(kind) == last.op = "response" /\ last.kind = kind
\* the requests of call l still with the transport
Outstanding(l) == {xhr \in xhrs : xhr.request.l = l}
\* the one invocation of call l's callback with a status code and no streams
Invocation(l, code) ==
    [call |-> l, code |-> code, streams |-> None, sid |-> sid, rid |-> rid]

\* the SessionRefresh of a login was answered with status 200 and musr = r,
\* its Login having been answered with mlid = s
HandshakeAnswered ==
    /\ Answer("update")
    /\ last.status = 200
    /\ last.mlid # None
    /\ last.musr # None

C2_FetchBeforeLogin ==
    /\ (last.op = "fetchStreams" /\ (sid = None \/ rid = None)) =>
           /\ last.error = Some("Login not completed.")
           /\ last.sent = <<>>
           /\ last.invoked = <<>>
    /\ \A l \in DOMAIN calls :
           (calls[l].op = "fetchStreams" /\ calls[l].error # None) =>
               (calls[l].invoked = 0 /\ Outstanding(l) = {})

\* C2 witness: fetchStreams was refused after the session id was stored and
\* before the revision id arrived
C2_Witness ==
    /\ last.op = "fetchStreams"
    /\ sid # None
    /\ rid = None
    /\ last.error = Some("Login not completed.")

\* C3: when the Login request is answered with a status c other than 200, the
\* login callback is invoked with c, and a SessionRefresh request is sent
\* only in the step that handles a 200 answer to the call's Login request.
C3_LoginFails ==
    /\ (Answer("login") /\ last.status # 200) =>
           /\ last.invoked = <<Invocation(last.call, last.status)>>
           /\ last.sent = <<>>
    /\ \A i \in DOMAIN last.sent :
           last.sent[i].request.kind = "update" =>
               /\ Answer("login")
               /\ last.status = 200
               /\ last.sent[i].request.l = last.call
    /\ \A xhr \in xhrs :
           xhr.request.kind = "update" => calls[xhr.request.l].login = Some(200)

\* C3 witness: a Login request was answered with 401
C3_Witness ==
    /\ Answer("login")
    /\ last.status = 401
    /\ last.invoked # <<>>

\* C4 as claimed: once every request of a login() call is answered, its
\* callback has been invoked exactly once, whatever the answers were.
C4_LoginCallbackOnce ==
    \A l \in DOMAIN calls :
        (calls[l].op = "login" /\ Outstanding(l) = {}) => calls[l].invoked = 1

\* C5 as claimed: every CatalogList request carries a sid and a rid that one
\* same completed handshake produced.
C5_CatalogSession ==
    \A xhr \in xhrs :
        xhr.request.kind = "database" =>
            \E h \in handshakes :
                xhr.request.sid = Some(h[1]) /\ xhr.request.rid = Some(h[2])

\* C6 as claimed: once the request of a fetchStreams call that passed the
\* precondition is answered, its callback has been invoked exactly once, with
\* streams if and only if the code is 200.
C6_FetchCallbackOnce ==
    /\ \A l \in DOMAIN calls :
           (calls[l].op = "fetchStreams" /\ calls[l].error = None /\ Outstanding(l) = {})
               => calls[l].invoked = 1
    /\ Answer("database") =>
           \A i \in DOMAIN last.invoked :
               (last.invoked[i].code = 200) <=> (last.invoked[i].streams # None)

\* C7: whatever the kind of the request, a status c other than 200 reaches
\* the caller's callback as c, once, and the body is not decoded.
C7_FailureVerbatim ==
    (last.op = "response" /\ last.status # 200) =>
        /\ ~last.decoding
        /\ ~last.handled
        /\ last.failed = Some(last.status)
        /\ last.invoked = <<Invocation(last.call, last.status)>>

\* C7 witness: a CatalogList request was answered with 401
C7_Witness ==
    /\ Answer("database")
    /\ last.status = 401
    /\ ~last.decoding
    /\ last.invoked # <<>>

\* C8 as claimed: a 200 answer whose body is no chunk at offset 0 (empty, or
\* a declared length that overruns the body) goes to request.fail(400); the
\* success handler is not run and nothing is sent.
C8_UndecodableBody ==
    (last.op = "response" /\ last.status = 200 /\ last.body \in UndecodableBodies) =>
        /\ last.failed = Some(400)
        /\ ~last.handled
        /\ last.sent = <<>>
        /\ last.invoked = <<Invocation(last.call, 400)>>

\* the URI of a CatalogList request for sid s and rid r, with the eleven
\* fields: item id, format, name, album, artist, genre, track number,
\* duration, size, year, bitrate
CatalogUri(s, r) ==
    "databases/1/items?type=music&session-id=" \o ToString(s)
        \o "&revision-id=" \o ToString(r)
        \o "&meta=dmap.itemid,daap.songformat,dmap.itemname,daap.songalbum,daap.songartist,"
        \o "daap.songgenre,daap.songtracknumber,daap.songtime,daap.songsize,"
        \o "daap.songyear,daap.songbitrate"

\* C22 as claimed: a CatalogList request is sent by fetchStreams, and its URI
\* is the catalog URI with the eleven fields and the sid and rid of the
\* session at the call, from the built client's handler and from the handler
\* of src/lib alike.
C22_CatalogUri ==
    \A i \in DOMAIN last.sent :
        last.sent[i].request.kind = "database" =>
            /\ last.op = "fetchStreams"
            /\ sid # None
            /\ rid # None
            /\ last.sent[i].uri = CatalogUri(sid[1], rid[1])
            /\ DatabaseRequestHandler_lib_getUri(last.sent[i].request)
                   = CatalogUri(sid[1], rid[1])

C24_NoAuthorization ==
    (last.op \in {"login", "secureLogin"} /\ last.password = None) =>
        \A i \in DOMAIN last.sent : last.sent[i].authorization = None

\* C25 as claimed: at most one request is with the transport.
C25_OneOutstanding == Cardinality(xhrs) <= 1

\* C25, amended: each call has at most one request with the transport, and
\* at most one request is with the transport as long as no call was made
\* while a request was.
C25_OnePerCall ==
    /\ \A l \in DOMAIN calls : Cardinality(Outstanding(l)) <= 1
    /\ (\A l \in DOMAIN calls : ~calls[l].busy) => Cardinality(xhrs) <= 1

\* C25 witness: a caller that waits for each answer has logged in and its
\* CatalogList request is the one request with the transport
C25_Witness ==
    /\ \A l \in DOMAIN calls : ~calls[l].busy
    /\ Len(calls) = 2
    /\ \E xhr \in xhrs : xhr.request.kind = "database" /\ xhrs = {xhr}

\* C27 as claimed: the code a callback is given for a 200 answer that could
\* not be decoded is none of the codes the transport reports for a failed
\* request.
C27_DecodeSentinel ==
    (last.op = "response" /\ last.status = 200 /\ last.failed # None) =>
        \A i \in DOMAIN last.invoked : last.invoked[i].code \notin FailureCodes

\* the address of a client constructed with port 3689
DefaultServer == Http \o ip \o Colon \o NumberToString(DefaultPort)

\* C28 as claimed: constructed without a port or with port 3689, the client
\* sends every request to http://ip:3689/ and builds every stream uri on
\* http://ip:3689.
C28_DefaultPort ==
    /\ \A i \in DOMAIN last.sent : last.sent[i].origin = DefaultServer \o Slash
    /\ \A i \in DOMAIN last.invoked :
           last.invoked[i].streams # None =>
               \A k \in DOMAIN last.invoked[i].streams[1] :
                   SubSeq(last.invoked[i].streams[1][k].uri, 1, Len(DefaultServer \o ItemsPath))
                       = DefaultServer \o ItemsPath

\* C29: a login() call has exactly one Login request and at most one
\* SessionRefresh request, the latter only once its Login request was
\* answered with 200, and no request of the call is sent in or after a step
\* that invoked its callback.
C29_NoRetries ==
    /\ \A l \in DOMAIN calls :
           calls[l].op = "login" =>
               /\ calls[l].logins = 1
               /\ calls[l].updates <= 1
               /\ calls[l].updates = 1 => calls[l].login = Some(200)
               /\ calls[l].invoked > 0 => Outstanding(l) = {}
    /\ \A i \in DOMAIN last.sent :
           calls[last.sent[i].request.l].op = "login" =>
               calls[last.sent[i].request.l].invoked = 0

\* C29 witness: a login went through both requests and its callback was invoked
C29_Witness ==
    \E l \in DOMAIN calls :
        /\ calls[l].op = "login"
        /\ calls[l].logins = 1
        /\ calls[l].updates = 1
        /\ calls[l].invoked = 1
        /\ Outstanding(l) = {}

\* the step handled a 200 answer to a request of the given kind: the body was
\* decoded and the handler ran to its end
Succeeded(step, kind) ==
    /\ step.op = "response"
    /\ step.kind = kind
    /\ step.status = 200
    /\ step.handled
    /\ step.failed = None
    /\ step.error = None

\* C30: sid changes only in a step that handles a 200 answer to a Login
\* request, and becomes its mlid; rid changes only in a step that handles a
\* 200 answer to a SessionRefresh request, and becomes its musr. Calls,
\* failure statuses and undecodable bodies leave both as they are.
C30_SessionWrites ==
    [][/\ sid' # sid => (Succeeded(last', "login") /\ sid' = last'.mlid)
       /\ rid' # rid => (Succeeded(last', "update") /\ rid' = last'.musr)]_vars

\* C30 witness: after a completed handshake a second Login answer has
\* replaced the session id, and the revision id is the one of the handshake
C30_Witness ==
    /\ Answer("login")
    /\ sid = Some(32)
    /\ rid = Some(5)
    /\ <<31, 5>> \in handshakes

\* the callback of a login() or secureLogin() call was invoked with 200
LoginCompleted(invocation) ==
    calls[invocation.call].op = "login" /\ invocation.code = 200

\* C33: rid is non-null only if sid is, and a login callback invoked with
\* 200 finds both non-null.
C33_SessionOrder ==
    /\ rid # None => sid # None
    /\ \A i \in DOMAIN last.invoked :
           LoginCompleted(last.invoked[i]) =>
               (last.invoked[i].sid # None /\ last.invoked[i].rid # None)

\* C33 witness: a login callback was invoked with 200 and found sid 32, rid 6
C33_Witness ==
    /\ last.invoked # <<>>
    /\ LoginCompleted(last.invoked[1])
    /\ last.invoked[1].sid = Some(32)
    /\ last.invoked[1].rid = Some(6)

\* C34 as claimed: whenever a login callback is invoked with 200, overlapping
\* logins included, the stored sid and rid are the mlid and the musr that the
\* server gave to one and the same login.
C34_RefreshOfStoredSid ==
    \A i \in DOMAIN last.invoked :
        LoginCompleted(last.invoked[i]) =>
            /\ sid # None
            /\ rid # None
            /\ <<sid[1], rid[1]>> \in handshakes

(***************************************************************************)
(* Claims on the decoder and on the helpers of DatabaseRequestHandler      *)
(***************************************************************************)
\* the direct children of the encoded chunk that carry a tag, in payload order
KidsWith(n, tag) == SelectSeq(n.kids, LAMBDA k : k.tag = tag)
\* a decoded chunk is the child that was encoded: its tag and its payload
IsKid(child, kid) == child.code = kid.tag /\ child.data = Payload(kid)
\* where the k-th child starts in the payload
KidStart(n, k) == Len(Joined(SubSeq(n.kids, 1, k - 1)))
\* v is b0 * 2^24 + b1 * 2^16 + b2 * 2^8 + b3 for the low 8 bits b0..b3 of the
\* four code units (split at 2^24 to stay within 32 bits)
\* (a byte that the payload does not have counts as 0)
Byte(raw, i) == IF i <= Len(raw) THEN raw[i] % 256 ELSE 0
IsUnsigned32(raw, v) ==
    /\ v >= 0
    /\ v \div (2 ^ 24) = Byte(raw, 1)
    /\ v % (2 ^ 24) = Byte(raw, 2) * (2 ^ 16) + Byte(raw, 3) * (2 ^ 8) + Byte(raw, 4)
\* v is the upper 16 bits of that number
IsUpper16(raw, v) == v = Byte(raw, 1) * (2 ^ 8) + Byte(raw, 2)
\* the decimal digits of hi * 2^16 + lo, by long division
RECURSIVE UnsignedDigits(_, _)
UnsignedDigits(hi, lo) ==
    IF hi = 0 /\ lo < 10 THEN <<48 + lo>>
    ELSE UnsignedDigits(hi \div 10, (((hi % 10) * 65536) + lo) \div 10)
             \o <<48 + ((((hi % 10) * 65536) + lo) % 10)>>
UnsignedText(raw) ==
    UnsignedDigits((raw[1] % 256) * 256 + (raw[2] % 256), (raw[3] % 256) * 256 + (raw[4] % 256))

\* C12 as claimed: on a chunk of well-formed children, seekFirst(t) for a
\* tag some child carries returns the first such child, and convertToInt on
\* a 4-byte child returns the number its bytes encode.
C12_SeekFirstFinds ==
    /\ (answer.method = "seekFirst" /\ ~tree.leaf /\ KidsWith(tree, answer.refCode) # <<>>) =>
           /\ answer.result # None
           /\ IsKid(answer.result[1], KidsWith(tree, answer.refCode)[1])
    /\ (answer.method = "convertToInt" /\ ~tree.leaf /\ Len(answer.target[1].data) = 4) =>
           /\ IsKid(answer.target[1], KidsWith(tree, answer.refCode)[1])
           /\ IsUnsigned32(KidsWith(tree, answer.refCode)[1].raw, answer.result)

\* C13 as claimed: seekFirst for a tag no direct child carries returns null
\* and throws nothing, also when the payload is empty or data.
C13_SeekFirstAbsent ==
    (answer.method = "seekFirst" /\ KidsWith(tree, answer.refCode) = <<>>) =>
        (answer.result = None /\ answer.thrown = None)

\* C14: on a chunk of well-formed children, seek(t) returns the direct
\* children that carry t, each once, in payload order, and nothing else.
C14_SeekAll ==
    (answer.method = "seek" /\ ~tree.leaf) =>
        /\ Len(answer.result) = Len(KidsWith(tree, answer.refCode))
        /\ \A i \in DOMAIN answer.result :
               IsKid(answer.result[i], KidsWith(tree, answer.refCode)[i])

\* C14 witness: the test's two mlid, 15 then 4, were returned
C14_Witness ==
    /\ answer.method = "seek"
    /\ answer.refCode = mlid
    /\ Len(tree.kids) = 3
    /\ Len(answer.result) = 2
    /\ convertToInt(answer.result[1]) = 15
    /\ convertToInt(answer.result[2]) = 4

\* C15 as claimed: convertToInt on four code units is b0 * 2^24 + b1 * 2^16 +
\* b2 * 2^8 + b3 of their low 8 bits, and never negative.
C15_UnsignedInt ==
    (answer.method = "convertToInt" /\ Len(answer.target[1].data) = 4) =>
        IsUnsigned32(answer.target[1].data, answer.result)

\* C16: decoding the encoding of (tag, payload) at offset 0 gives back the
\* tag, the length and the payload, and readNextChunk gives back the encoded
\* children one after the other, then throws EndOfPacketException.
C16_RoundTrip ==
    /\ Constructed =>
           /\ IsPacket(packet)
           /\ packet.code = tree.tag
           /\ size(packet) - HEADER_LENGTH = Len(Payload(tree))
           /\ packet.data = Payload(tree)
    /\ (answer.method = "readNextChunk" /\ ~tree.leaf) =>
           \/ /\ answer.at = Len(Payload(tree))
              /\ answer.result = None
              /\ answer.thrown = Some(EndOfPacketException)
           \/ \E k \in DOMAIN tree.kids :
                  /\ answer.at = KidStart(tree, k)
                  /\ answer.result # None
                  /\ IsKid(answer.result[1], tree.kids[k])

\* C16 witness: the second child of the test's mlog was read back
C16_Witness ==
    /\ answer.method = "readNextChunk"
    /\ answer.at = 12
    /\ answer.result # None
    /\ answer.result[1].code = mlid
    /\ answer.result[1].data = UInt32Bytes(31)

\* C17 as claimed: extractInt gives -1 and extractString gives "" when no
\* direct child carries the tag, and convertToInt / convertToString of the
\* first child that carries it otherwise.
C17_Extract ==
    /\ answer.method = "extractInt" =>
           answer.result =
               IF KidsWith(tree, answer.refCode) = <<>> THEN 0 - 1
               ELSE readUInt32(Payload(KidsWith(tree, answer.refCode)[1]), 0)
    /\ answer.method = "extractString" =>
           answer.result =
               IF KidsWith(tree, answer.refCode) = <<>> THEN <<>>
               ELSE Payload(KidsWith(tree, answer.refCode)[1])

\* the entries of the first mlcl of the encoded answer
Entries == KidsWith(KidsWith(tree, mlcl)[1], mlit)

\* C18: the callback is given 200 and one stream per direct mlit child of the
\* first mlcl, in order (each entry has an id of its own), and nothing else.
C18_OnePerEntry ==
    answer.method = "handleResponse" =>
        /\ Len(answer.result) = 1
        /\ answer.result[1].code = 200
        /\ answer.result[1].streams # None
        /\ Len(answer.result[1].streams[1]) = Len(Entries)
        /\ \A i \in DOMAIN Entries :
               answer.result[1].streams[1][i].id =
                   answer.refCode \o Dash \o UnsignedText(KidsWith(Entries[i], miid)[1].raw)

\* C18 witness: two entries under the first mlcl and one under a second
C18_Witness ==
    /\ answer.method = "handleResponse"
    /\ Len(KidsWith(tree, mlcl)) = 2
    /\ Len(Entries) = 2
    /\ Len(answer.result[1].streams[1]) = 2

\* an entry with miid, asfm and minm
HasNames == \A tag \in {miid, asfm, minm} : KidsWith(tree, tag) # <<>>

\* C19 as claimed: the stream of an entry with miid = i, asfm = f, minm = n
\* made under sid s has id "s-i", uri server/databases/1/items/i.f?session-id=s
\* and title n.
C19_StreamNames ==
    (answer.method = "createDaapStream" /\ ~tree.leaf /\ HasNames) =>
        /\ answer.result.id =
               answer.refCode \o Dash \o UnsignedText(KidsWith(tree, miid)[1].raw)
        /\ answer.result.uri =
               server \o ItemsPath \o UnsignedText(KidsWith(tree, miid)[1].raw) \o Dot
                   \o KidsWith(tree, asfm)[1].raw \o SessionParameter \o answer.refCode
        /\ answer.result.title = KidsWith(tree, minm)[1].raw

\* C20 as claimed: bitrate and year are the upper 16 bits of the unsigned
\* asbr and asyr, and no other number is shifted.
C20_UpperHalf ==
    (answer.method = "createDaapStream" /\ ~tree.leaf) =>
        /\ KidsWith(tree, asbr) # <<>> =>
               IsUpper16(KidsWith(tree, asbr)[1].raw, answer.result.bitrate)
        /\ KidsWith(tree, asyr) # <<>> =>
               IsUpper16(KidsWith(tree, asyr)[1].raw, answer.result.year)
        /\ KidsWith(tree, astm) # <<>> =>
               IsUnsigned32(KidsWith(tree, astm)[1].raw, answer.result.duration)
        /\ KidsWith(tree, assz) # <<>> =>
               IsUnsigned32(KidsWith(tree, assz)[1].raw, answer.result.size)
        /\ KidsWith(tree, astn) # <<>> =>
               IsUnsigned32(KidsWith(tree, astn)[1].raw, answer.result.trackNumber)

\* C21 as claimed: in the stream of an entry, trackNumber, duration, size,
\* bitrate and year are -1 when the entry has no child with their tag (the
\* two shifted ones included), and title, album, artist, genre and format
\* are "" when it has none with theirs.
C21_Sentinels ==
    answer.method = "createDaapStream" =>
        /\ KidsWith(tree, astn) = <<>> => answer.result.trackNumber = 0 - 1
        /\ KidsWith(tree, astm) = <<>> => answer.result.duration = 0 - 1
        /\ KidsWith(tree, assz) = <<>> => answer.result.size = 0 - 1
        /\ KidsWith(tree, asbr) = <<>> => answer.result.bitrate = 0 - 1
        /\ KidsWith(tree, asyr) = <<>> => answer.result.year = 0 - 1
        /\ KidsWith(tree, minm) = <<>> => answer.result.title = <<>>
        /\ KidsWith(tree, asal) = <<>> => answer.result.album = <<>>
        /\ KidsWith(tree, asar) = <<>> => answer.result.artist = <<>>
        /\ KidsWith(tree, asgn) = <<>> => answer.result.genre = <<>>
        /\ KidsWith(tree, asfm) = <<>> => answer.result.format = <<>>

\* C26 as claimed: on a payload that ends in bytes that are no complete
\* child, seek, and seekFirst for a tag no complete child carries, end in an
\* error and do not return as they do at the end of the children.
C26_StructuralError ==
    /\ (tree \in TornTrees /\ answer.method = "seek") => answer.thrown # None
    /\ (tree \in TornTrees /\ answer.method = "seekFirst"
            /\ KidsWith(tree, answer.refCode) = <<>>) => answer.thrown # None

\* C31: on a chunk of well-formed children, readNextChunk at the start of
\* the k-th child returns that child and moves the offset by the child's
\* size(), to the start of the next; at the end of the payload it throws
\* EndOfPacketException and leaves the offset where it is, so that the next
\* call throws again.
C31_ReadInOrder ==
    (answer.method = "readNextChunk" /\ ~tree.leaf) =>
        \/ /\ answer.thrown = Some(EndOfPacketException)
           /\ answer.at = Len(Payload(tree))
           /\ packet.offset = answer.at
           /\ readNextChunk(packet).thrown
        \/ \E k \in DOMAIN tree.kids :
               /\ answer.thrown = None
               /\ answer.at = KidStart(tree, k)
               /\ IsKid(answer.result[1], tree.kids[k])
               /\ packet.offset = answer.at + size(answer.result[1])
               /\ packet.offset = KidStart(tree, k + 1)

\* C31 witness: past the two children of the test's mlog (24 bytes), the
\* call has thrown
C31_Witness ==
    /\ answer.method = "readNextChunk"
    /\ Len(tree.kids) = 2
    /\ answer.at = 24
    /\ answer.thrown = Some(EndOfPacketException)
    /\ packet.offset = 24

\* the packet as the constructor leaves it
Fresh == DaapPacket(chunk, Undefined)

\* C32: whatever was called on the packet before, seekFirst and seek return
\* what they return on a freshly decoded packet.
C32_ScanFromStart ==
    /\ answer.method = "seekFirst" =>
           answer.result = seekFirst(Fresh, answer.refCode).result
    /\ answer.method = "seek" =>
           answer.result = seek(Fresh, answer.refCode).result

\* C32 witness: with the cursor past the mlid of the test's mlog,
\* seekFirst("mstt") has returned the mstt that precedes it
C32_Witness ==
    /\ answer.method = "seekFirst"
    /\ answer.refCode = mstt
    /\ answer.at = 24
    /\ Len(tree.kids) = 2
    /\ answer.result # None
    /\ answer.result[1].data = <<0, 0, 0, 65480>>

\* the children a scan from the start of the payload reads before
\* readNextChunk throws
RECURSIVE ReadsFrom(_)
ReadsFrom(r) == IF r.thrown THEN 0 ELSE 1 + ReadsFrom(readNextChunk(r.self))
Scanned(p) == ReadsFrom(readNextChunk([p EXCEPT !.offset = 0]))

\* C35: whatever the payload holds, a readNextChunk that returns a child
\* moves the offset by at least 8, and a scan from the start of the payload
\* ends after at most floor(payload length / 8) children, so that seek
\* returns no more than that.
C35_ScanEnds ==
    /\ IsPacket(packet) => Scanned(packet) <= Len(packet.data) \div HEADER_LENGTH
    /\ (answer.method = "readNextChunk" /\ answer.result # None) =>
           packet.offset >= answer.at + HEADER_LENGTH
    /\ answer.method = "seek" =>
           Len(answer.result) <= Len(packet.data) \div HEADER_LENGTH

\* C35 witness: seek has gone through the 260 zero bytes, 32 children of 8
\* bytes and 4 bytes more
C35_Witness ==
    /\ tree = Leaf(mlog, Zeros(260))
    /\ answer.method = "seek"
    /\ Scanned(packet) = 32
    /\ packet.offset = 256

\* C36 as claimed: convertToInt on fewer than 4 bytes is the number of the
\* bytes padded on the right with zeros to 4; year and bitrate of a 2-byte
\* asyr and asbr are the 2-byte number, and trackNumber of a 2-byte astn is
\* that number times 2^16.
C36_ShortPayload ==
    /\ (answer.method = "convertToInt" /\ Len(answer.target[1].data) < 4) =>
           IsUnsigned32(answer.target[1].data, answer.result)
    /\ (answer.method = "createDaapStream" /\ ~tree.leaf) =>
           /\ \A i \in DOMAIN KidsWith(tree, asyr) :
                  (i = 1 /\ Len(KidsWith(tree, asyr)[i].raw) = 2) =>
                      IsUpper16(KidsWith(tree, asyr)[i].raw, answer.result.year)
           /\ \A i \in DOMAIN KidsWith(tree, asbr) :
                  (i = 1 /\ Len(KidsWith(tree, asbr)[i].raw) = 2) =>
                      IsUpper16(KidsWith(tree, asbr)[i].raw, answer.result.bitrate)
           /\ \A i \in DOMAIN KidsWith(tree, astn) :
                  (i = 1 /\ Len(KidsWith(tree, astn)[i].raw) = 2) =>
                      IsUnsigned32(KidsWith(tree, astn)[i].raw, answer.result.trackNumber)

====
